---- MODULE Spec2Model ----
(***************************************************************************)
(* The scroll-driven visibility controller of the blog's AppFrame          *)
(* (src/src/components/AppFrame/index.tsx, useScrollShower) as a state     *)
(* machine: the window's scroll offset and its 'scroll' listeners, the     *)
(* handler closures built by scrollInfoEvent, and, per mounted component,  *)
(* the React state cell isShow, the value its last render returned and the *)
(* position of its passive effect (attach) and of the effect's disposer    *)
(* (detach). RelatedArticle, the other component of the file, is modelled   *)
(* with its reducer, its memoised data and the list it renders. The search *)
(* trigger, the language-switcher trigger, the MDX wrapper and the preview *)
(* workflow each have their own variables and their own specification.     *)
(***************************************************************************)
EXTENDS Integers, FiniteSets, Sequences, TLC

\* ------------------------------------------------------------------ bounds

\* Largest scroll offset the host reports.
MaxOffset == 30

\* Spacing of the sampled scroll offsets.
Grid == 7

\* Number of handler closures that can be alive at once.
MaxFns == 3

\* Longest articles prop handed to RelatedArticle.
MaxArticles == 3

\* Number of changeShow calls of useSearchShow that are followed.
MaxCalls == 4

\* Number of calls made by the language-switcher trigger that are followed.
MaxTrace == 6

\* Most top-level elements of an MDX document.
MaxChildren == 3

\* Number of runs of the preview workflow that are followed.
MaxRuns == 2

\* ---------------------------------------------------------------- constants

\* `diff > 14` in the callback handed to scrollInfoEvent.
Threshold == 14

\* The places of the component tree that hold an AppFrame.
Instances == {"frame1", "frame2"}

\* window.pageYOffset values: the offsets at, and one past, each multiple of
\* Grid up to MaxOffset.
Offsets == {o \in 0..MaxOffset : o % Grid <= 1}

\* Identities of the functions returned by scrollInfoEvent.
FnIds == 1..MaxFns

\* The argument of useScrollShower(init?: boolean): omitted, or a boolean.
InitArgs == {<<>>, <<TRUE>>, <<FALSE>>}

VARIABLES
    scrollY,    \* the window's current vertical scroll offset
    listeners,  \* the functions registered for 'scroll' on the window
    fns,        \* the live closures of scrollInfoEvent: id |-> its state
    phase,      \* per instance: "absent", "unmounted", "rendered", "active",
                \* "cleanup"
    init,       \* per instance: the argument useScrollShower was called with
    isShow,     \* per instance: the useState cell
    shown,      \* per instance: the value the last render returned
    effectFn,   \* per instance: the fn its effect (and disposer) closed over
    seen,       \* history: instance |-> the last event its handler processed
    calm,       \* history: no event over the threshold processed since mount
    origin,     \* history: the previous position its handler started from
    initial,    \* history: the flag right after mount
    fired,      \* history: the host moved by more than Threshold in one
                \* event since the instance's observer was detached
    cycled,     \* history: the instance has been mounted and detached before
    redetached, \* history: a disposer was invoked on a detached controller
    chrome,     \* per instance: the class AppFrame's last render gave the
                \* header and the bottom navigation
    prior,      \* history: the flag the previous activation ended with,
                \* kept until the next activation's effect has run
    lastBig,    \* history: direction of the last event over the threshold
                \* processed since mount, "none" when there was none
    firstFn,    \* history: the fn the first render built
    paired,     \* history: both instances are attached and have processed
                \* the same events from the same start
    raPhase,    \* RelatedArticle: "unmounted" or "mounted"
    raState,    \* RelatedArticle: the useReducer state
    raProps,    \* RelatedArticle: the articles prop of the last render
    raMemo,     \* RelatedArticle: useMemo's cell, [deps, value]
    raList,     \* RelatedArticle: the <li> elements of the last render
    raFirst,    \* history: the articles prop of the first render
    raReduced,  \* history: the reducer has been applied since mount
    searchShow,    \* the state behind useSearchShow
    searchMounted, \* the search trigger is in the tree
    searchSeen,    \* the state the trigger's last render read (and ignored)
    searchLog,     \* history: the calls of changeShow, [by, value, before]
    langPhase,  \* language-switcher trigger: "unmounted", "rendered" (effect
                \* pending), "bound" (effect run)
    langOpen,   \* the dialog state behind the LangSwitcher context
    langBinds,  \* the handlers the trigger has bound to cmd+i
    langSeen,   \* the dialog state the trigger's last render read
    langTrace,  \* history: the calls made by the trigger's handlers,
                \* [by, call, n], n numbering the clicks and key presses
    mdxDoc,     \* the top-level elements of the MDX document last rendered
    mdxOut,     \* what the wrapper made of them: [threw, items]
    mdxRendered, \* a document has been rendered
    job         \* per run of the preview workflow, per job: "idle" (no run
                \* yet), "queued", "running", "success", "failure", "skipped"

hist == <<seen, calm, origin, initial, fired, cycled, redetached>>

hist2 == <<prior, lastBig, firstFn, paired>>

raVars == <<raPhase, raState, raProps, raMemo, raList, raFirst, raReduced>>

frameVars == <<scrollY, listeners, fns, phase, init, isShow, shown, effectFn,
               hist, chrome, hist2>>

searchVars == <<searchShow, searchMounted, searchSeen, searchLog>>

\* The widgets outside AppFrame's file.
langVars == <<langPhase, langOpen, langBinds, langSeen, langTrace>>

mdxVars == <<mdxDoc, mdxOut, mdxRendered>>

flowVars == <<job>>

siteVars == <<searchVars, langVars, mdxVars, flowVars>>

vars == <<frameVars, raVars, siteVars>>

\* What the search trigger leaves alone.
besideSearch == <<frameVars, raVars, langVars, mdxVars, flowVars>>

\* What the language-switcher trigger leaves alone.
besideLang == <<frameVars, raVars, searchVars, mdxVars, flowVars>>

\* What the MDX wrapper leaves alone.
besideMdx == <<frameVars, raVars, searchVars, langVars, flowVars>>

\* What the preview workflow leaves alone.
besideFlow == <<frameVars, raVars, searchVars, langVars, mdxVars>>

Abs(n) == IF n < 0 THEN -n ELSE n

\* ------------------------------------------------------------ pure parts

\* Mutant: the default of the flag is true (`init ?? true`).
UseStateInit_DefaultTrue(arg) == IF arg = <<>> THEN TRUE ELSE arg[1]

\* useState(init ?? false): the initial value of the flag.
UseStateInit(arg) == IF arg = <<>> THEN FALSE ELSE arg[1]

\* Mutant: the state cell outlives the component (a module-level variable).
MountState_Kept(i, arg) == IF cycled[i] THEN isShow[i] ELSE UseStateInit(arg)

\* useState at the first render of the component at place i: a new cell.
MountState(i, arg) == UseStateInit(arg)

\* Mutant: the hook returns its argument, not its state.
HookReturn_Init(i) == UseStateInit(init[i])

\* `return isShow`: what a render of the component at place i gets.
HookReturn(i) == isShow[i]

\* AppFrame calls useScrollShower(true).
AppFrameArg == <<TRUE>>

\* Mutant: the header's condition is inverted.
HeaderClass_Inverted(isShowHeader) == IF isShowHeader THEN "-translate-y-full" ELSE ""

\* The conditional class of TheHeader.
HeaderClass(isShowHeader) == IF isShowHeader THEN "" ELSE "-translate-y-full"

\* The conditional class of BottomNavigation.
NavClass(isShowHeader) == IF isShowHeader THEN "" ELSE "translate-y-full"

\* What AppFrame renders from the hook's value.
Render(isShowHeader) ==
    [header |-> HeaderClass(isShowHeader), nav |-> NavClass(isShowHeader)]

\* Nothing is rendered at a place without a mounted component.
Unrendered == [header |-> "unrendered", nav |-> "unrendered"]

\* scrollInfoEvent: what the returned function hands to its callback for a
\* stored previous position and the current offset.
ScrollInfo(previous, position) ==
    [direction |-> IF position < previous THEN "up" ELSE "down",
     diff      |-> Abs(position - previous)]

\* scrollInfoEvent: the previous position stored after an event.
NextPrevious(previous, position) == position

\* scrollInfoEvent: the previous position a new closure may start from, when
\* built while the window is at offset y.
InitialPrevious(y) == {0, y}

\* Mutant: the magnitude test is missing, the direction alone decides.
Callback_NoThreshold(info, show) ==
    IF info.diff > 0 /\ info.direction = "up" THEN TRUE
    ELSE IF info.diff > 0 /\ info.direction = "down" THEN FALSE
    ELSE show

\* Mutant: the comparison is not strict (`diff >= 14`).
Callback_NotStrict(info, show) ==
    IF info.diff >= Threshold /\ info.direction = "up" THEN TRUE
    ELSE IF info.diff >= Threshold /\ info.direction = "down" THEN FALSE
    ELSE show

\* Mutant: the upward branch hides (`changeShow(false)` in both branches).
Callback_UpHides(info, show) ==
    IF info.diff > Threshold /\ info.direction = "up" THEN FALSE
    ELSE IF info.diff > Threshold /\ info.direction = "down" THEN FALSE
    ELSE show

\* Mutant: the downward branch is missing.
Callback_DownMissing(info, show) ==
    IF info.diff > Threshold /\ info.direction = "up" THEN TRUE
    ELSE show

\* Mutant: a lower threshold (`diff > 4`).
Callback_LowThreshold(info, show) ==
    IF info.diff > 4 /\ info.direction = "up" THEN TRUE
    ELSE IF info.diff > 4 /\ info.direction = "down" THEN FALSE
    ELSE show

\* Mutant: a plain `else` hides on everything that is not a big move up.
Callback_ElseHides(info, show) ==
    IF info.diff > Threshold /\ info.direction = "up" THEN TRUE
    ELSE FALSE

\* Mutant: an event over the threshold toggles the flag (`changeShow(!isShow)`).
Callback_Toggle(info, show) ==
    IF info.diff > Threshold THEN ~show ELSE show

\* The callback of useScrollShower: the flag after changeShow, or the flag
\* as it was when neither branch is taken.
Callback(info, show) ==
    IF info.diff > Threshold /\ info.direction = "up" THEN TRUE
    ELSE IF info.diff > Threshold /\ info.direction = "down" THEN FALSE
    ELSE show

\* changeShow on a fiber: a state update of an unmounted component is dropped.
ChangeShow(live, show, value) == IF live THEN value ELSE show

\* addEventListener('scroll', fn): a function is registered at most once.
AddEventListener(ls, h) == ls \cup {h}

\* Mutant: the disposer removes nothing (it is handed another function).
RemoveEventListener_Nothing(ls, h) == ls

\* Mutant: the disposer clears every scroll listener of the window.
RemoveEventListener_All(ls, h) == {}

\* removeEventListener('scroll', fn): removing an unregistered fn is a no-op.
RemoveEventListener(ls, h) == ls \ {h}

\* Mutant: the effect has no dependency list and runs after every render.
EffectRunsOnUpdate_NoDeps == TRUE

\* The dependency list [] of the effect: it does not run again on update.
EffectRunsOnUpdate == FALSE

\* The smallest unused closure identity.
NewFn == CHOOSE h \in FnIds \ DOMAIN fns : \A g \in FnIds \ DOMAIN fns : h <= g

\* React flushes pending passive effects before it starts another render.
NoPendingPassive ==
    \A i \in Instances : phase[i] \in {"absent", "unmounted", "active"}

\* f with x mapped to v, x added to the domain when missing.
Put(f, x, v) == [k \in DOMAIN f \cup {x} |-> IF k = x THEN v ELSE f[k]]

\* f without the keys in S.
Drop(f, S) == [k \in DOMAIN f \ S |-> f[k]]

\* --------------------------------------------------------- RelatedArticle

\* The `to` of the articles the parent may hand over.
ArticleLinks == {"/posts/a", "/posts/b"}

\* ArticleHeadlineProps, reduced to the field the list reads.
ArticleProps == [to : ArticleLinks]

\* The articles prop: a list of ArticleHeadlineProps.
ArticleLists == UNION {[1..n -> ArticleProps] : n \in 0..MaxArticles}

\* type Action = { type: 'recent' }
RaActions == {[type |-> "recent"]}

\* const initialState: State = { type: 'RECENT' }
initialState == [type |-> "RECENT"]

\* Mutant: the reducer takes the state's type from the action.
reducer_FromAction(state, action) == [type |-> action.type]

\* const reducer = (state, action) => { return { type: 'RECENT' } }
reducer(state, action) == [type |-> "RECENT"]

\* The function handed to useMemo: the switch over state.type (no case
\* matches another type, and nothing is returned).
MemoValue(state, articles) ==
    CASE state.type = "RECENT" -> articles
      [] OTHER -> <<>>

\* Mutant: the dependency list names the articles too.
MemoDeps_WithArticles(state, articles) == <<state.type, articles>>

\* The dependency list of useMemo: [state.type].
MemoDeps(state, articles) == <<state.type>>

\* useMemo's cell before the first render.
NoMemo == [deps |-> <<>>, value |-> <<>>]

\* useMemo: the value is computed again only when a dependency changed.
UseMemo(memo, deps, value) ==
    IF memo # NoMemo /\ memo.deps = deps THEN memo
    ELSE [deps |-> deps, value |-> value]

\* data.map(...): one <li key={to}> per element, in order.
ListItems(data) ==
    [k \in 1..Len(data) |-> [key |-> data[k].to, headline |-> data[k]]]

\* What a render of RelatedArticle leaves: the memo cell and the list.
RaRender(state, articles) ==
    LET memo == UseMemo(raMemo, MemoDeps(state, articles), MemoValue(state, articles))
    IN /\ raMemo' = memo
       /\ raList' = ListItems(memo.value)
       /\ raProps' = articles

\* First render of RelatedArticle.
RaMount(articles) ==
    /\ raPhase = "unmounted"
    /\ raPhase' = "mounted"
    /\ raState' = initialState
    /\ RaRender(initialState, articles)
    /\ raFirst' = articles
    /\ raReduced' = FALSE
    /\ UNCHANGED <<frameVars, siteVars>>

\* The parent renders RelatedArticle again, with whatever articles it has.
RaRerender(articles) ==
    /\ raPhase = "mounted"
    /\ RaRender(raState, articles)
    /\ UNCHANGED <<raPhase, raState, raFirst, raReduced, frameVars, siteVars>>

\* React applies the reducer to an action and renders with the new state.
RaDispatch(action) ==
    /\ raPhase = "mounted"
    /\ raState' = reducer(raState, action)
    /\ RaRender(reducer(raState, action), raProps)
    /\ raReduced' = TRUE
    /\ UNCHANGED <<raPhase, raFirst, frameVars, siteVars>>

\* RelatedArticle is removed: its hooks' cells are gone.
RaUnmount ==
    /\ raPhase = "mounted"
    /\ raPhase' = "unmounted"
    /\ raState' = initialState
    /\ raProps' = <<>>
    /\ raMemo' = NoMemo
    /\ raList' = <<>>
    /\ raFirst' = <<>>
    /\ raReduced' = FALSE
    /\ UNCHANGED <<frameVars, siteVars>>

\* ---------------------------------------------------- the search trigger

\* Who calls changeShow: the trigger of src/unnamed/part_001, or another
\* consumer of useSearchShow (the search dialog closing itself).
SearchCallers == {"trigger", "dialog"}

\* Mutant: the click toggles the state (`changeShow(!show)`).
SearchOnClick_Toggle(show) == ~show

\* onClick={() => changeShow(true)}: the argument handed to changeShow.
SearchOnClick(show) == TRUE

\* The setter useSearchShow returns: the state becomes the value given.
SearchChangeShow(show, value) == value

\* A call of changeShow by one of the callers.
SearchCall(by, value) ==
    /\ Len(searchLog) < MaxCalls
    /\ searchShow' = SearchChangeShow(searchShow, value)
    /\ searchLog' = Append(searchLog,
                           [by |-> by, value |-> value, before |-> searchShow])

\* The trigger is rendered (mounted, or rendered again): it reads the state
\* and calls nothing.
SearchRender ==
    /\ ~searchMounted \/ searchSeen # searchShow
    /\ searchMounted' = TRUE
    /\ searchSeen' = searchShow
    /\ UNCHANGED <<searchShow, searchLog, besideSearch>>

\* A click on the search button.
SearchClick ==
    /\ searchMounted
    /\ SearchCall("trigger", SearchOnClick(searchShow))
    /\ UNCHANGED <<searchMounted, searchSeen, besideSearch>>

\* Another consumer of the hook sets the state.
SearchOther(value) ==
    /\ SearchCall("dialog", value)
    /\ UNCHANGED <<searchMounted, searchSeen, besideSearch>>

\* The trigger leaves the tree; the state lives outside it.
SearchUnmount ==
    /\ searchMounted
    /\ searchMounted' = FALSE
    /\ UNCHANGED <<searchShow, searchSeen, searchLog, besideSearch>>

\* The search widgets before anything is rendered.
SearchInit ==
    /\ searchShow = FALSE
    /\ searchMounted = FALSE
    /\ searchSeen = FALSE
    /\ searchLog = <<>>

\* ------------------------------------------- the language-switcher trigger

\* Mutant: the handler logs before it opens the dialog.
ShortcutHandler_LogFirst == <<"log", "on">>

\* The handler bound to cmd+i: showDialog(), then safeLogEvent(... 'shortcut').
ShortcutHandler == <<"on", "log">>

\* onClick={showDialog}.
ClickHandler == <<"on">>

\* The 'on' action of the dialog context: the dialog is open afterwards.
LangOn(open) == TRUE

\* useEffect(..., []) around bind: not run again by a later render.
LangEffectRunsOnUpdate == FALSE

\* The number of the next click or key press.
LangNextN ==
    IF langTrace = <<>> THEN 1 ELSE langTrace[Len(langTrace)].n + 1

\* The calls of `calls`, made by `by` in interaction n, as trace entries.
LangEntries(by, calls, n) ==
    [k \in 1..Len(calls) |-> [by |-> by, call |-> calls[k], n |-> n]]

\* `calls` repeated `times` times.
RECURSIVE Repeat(_, _)
Repeat(calls, times) ==
    IF times = 0 THEN <<>> ELSE calls \o Repeat(calls, times - 1)

\* The handlers run: the dialog opens when one of them calls 'on'.
LangRun(by, calls) ==
    /\ Len(langTrace) + Len(calls) <= MaxTrace
    /\ langTrace' = langTrace \o LangEntries(by, calls, LangNextN)
    /\ langOpen' = IF \E k \in 1..Len(calls) : calls[k] = "on"
                   THEN LangOn(langOpen) ELSE langOpen

\* First render: reads the context, takes bind from useShortcut.
LangMount ==
    /\ langPhase = "unmounted"
    /\ langPhase' = "rendered"
    /\ langSeen' = langOpen
    /\ UNCHANGED <<langOpen, langBinds, langTrace, besideLang>>

\* The mount effect: binds the handler to cmd+i.
LangEffect ==
    /\ langPhase = "rendered"
    /\ langPhase' = "bound"
    /\ langBinds' = langBinds + 1
    /\ UNCHANGED <<langOpen, langSeen, langTrace, besideLang>>

\* A later render, after the dialog state changed.
LangRerender ==
    /\ langPhase = "bound"
    /\ langSeen # langOpen
    /\ langSeen' = langOpen
    /\ langBinds' = IF LangEffectRunsOnUpdate /\ 2 * (langBinds + 1) <= MaxTrace
                    THEN langBinds + 1 ELSE langBinds
    /\ UNCHANGED <<langPhase, langOpen, langTrace, besideLang>>

\* A click on the button.
LangClick ==
    /\ langPhase \in {"rendered", "bound"}
    /\ LangRun("click", ClickHandler)
    /\ UNCHANGED <<langPhase, langBinds, langSeen, besideLang>>

\* cmd+i is pressed: every handler bound to it runs.
LangShortcut ==
    /\ langBinds > 0
    /\ LangRun("shortcut", Repeat(ShortcutHandler, langBinds))
    /\ UNCHANGED <<langPhase, langBinds, langSeen, besideLang>>

\* The dialog is closed from inside (the context's other action).
LangOff ==
    /\ langOpen
    /\ langOpen' = FALSE
    /\ UNCHANGED <<langPhase, langBinds, langSeen, langTrace, besideLang>>

\* The trigger leaves the tree, and its useShortcut instance with it.
LangUnmount ==
    /\ langPhase = "bound"
    /\ langPhase' = "unmounted"
    /\ langBinds' = 0
    /\ UNCHANGED <<langOpen, langSeen, langTrace, besideLang>>

\* The language-switcher widgets before anything is rendered.
LangInit ==
    /\ langPhase = "unmounted"
    /\ langOpen = FALSE
    /\ langBinds = 0
    /\ langSeen = FALSE
    /\ langTrace = <<>>

\* --------------------------------------------------------- the MDX wrapper

\* The elements MDX hands to the wrapper: their props carry mdxType and
\* originalType, and some a className or an id.
MdxElements ==
    { [type |-> "MDXCreateElement", key |-> <<>>,
       props |-> [mdxType |-> "p", originalType |-> "p"]],
      [type |-> "MDXCreateElement", key |-> <<>>,
       props |-> [mdxType |-> "h2", originalType |-> "h2", id |-> "title"]],
      [type |-> "MDXCreateElement", key |-> <<>>,
       props |-> [mdxType |-> "div", originalType |-> "div",
                  className |-> "note"]],
      [type |-> "MDXCreateElement", key |-> <<>>,
       props |-> [mdxType |-> "div", originalType |-> "div",
                  className |-> "footnotes"]],
      [type |-> "MDXCreateElement", key |-> <<>>,
       props |-> [mdxType |-> "div", originalType |-> "div",
                  className |-> "footnotes", id |-> "fn"]] }

\* The bodies of MDX documents.
MdxDocs == UNION {[1..n -> MdxElements] : n \in 0..MaxChildren}

\* props.children as React.createElement builds it: absent without a child,
\* the child itself when there is one, an array otherwise.
ChildrenProp(items) ==
    [shape |-> CASE Len(items) = 0 -> "undefined"
                 [] Len(items) = 1 -> "element"
                 [] OTHER -> "array",
     items |-> items]

\* child.props.className === 'footnotes'
IsFootnotes(child) ==
    "className" \in DOMAIN child.props /\ child.props.className = "footnotes"

\* const { mdxType, originalType, ...rest } = child.props
Rest(props) ==
    [k \in DOMAIN props \ {"mdxType", "originalType"} |-> props[k]]

\* Mutant: the div is given all the props of the child.
MapChild_AllProps(child) ==
    IF IsFootnotes(child)
    THEN [type |-> "div", key |-> <<1>>, props |-> child.props]
    ELSE child

\* The callback of children.map.
MapChild(child) ==
    IF IsFootnotes(child)
    THEN [type |-> "div", key |-> <<1>>, props |-> Rest(child.props)]
    ELSE child

\* wrapper: children.map exists on an array only; on anything else the call
\* throws a TypeError.
Wrapper(children) ==
    IF children.shape = "array"
    THEN [threw |-> FALSE,
          items |-> [k \in 1..Len(children.items) |-> MapChild(children.items[k])]]
    ELSE [threw |-> TRUE, items |-> <<>>]

\* A document is rendered through the provider.
MdxRender(doc) ==
    /\ mdxDoc' = doc
    /\ mdxOut' = Wrapper(ChildrenProp(doc))
    /\ mdxRendered' = TRUE
    /\ UNCHANGED besideMdx

\* Before any document is rendered.
MdxInit ==
    /\ mdxDoc = <<>>
    /\ mdxOut = [threw |-> FALSE, items |-> <<>>]
    /\ mdxRendered = FALSE

\* ---------------------------------------------------- the preview workflow

\* The runs started by pull requests against main.
Runs == 1..MaxRuns

\* jobs: of the workflow.
Jobs == {"setup", "build", "unit-test", "deploy", "performance"}

\* Mutant: deploy waits for build only (`needs: build`).
Needs_DeployAfterBuild(j) ==
    CASE j = "setup" -> {}
      [] j = "build" -> {"setup"}
      [] j = "unit-test" -> {"setup"}
      [] j = "deploy" -> {"build"}
      [] j = "performance" -> {"deploy"}

\* needs: of each job.
Needs(j) ==
    CASE j = "setup" -> {}
      [] j = "build" -> {"setup"}
      [] j = "unit-test" -> {"setup"}
      [] j = "deploy" -> {"unit-test", "build"}
      [] j = "performance" -> {"deploy"}

\* on: pull_request: a run is created with every job queued.
FlowTrigger(r) ==
    /\ \A j \in Jobs : job[r][j] = "idle"
    /\ job' = [job EXCEPT ![r] = [j \in Jobs |-> "queued"]]
    /\ UNCHANGED besideFlow

\* A queued job starts once every job it needs has succeeded.
FlowStart(r, j) ==
    /\ job[r][j] = "queued"
    /\ \A n \in Needs(j) : job[r][n] = "success"
    /\ job' = [job EXCEPT ![r][j] = "running"]
    /\ UNCHANGED besideFlow

\* A running job ends: all its steps passed, or one failed.
FlowFinish(r, j, passed) ==
    /\ job[r][j] = "running"
    /\ job' = [job EXCEPT ![r][j] = IF passed THEN "success" ELSE "failure"]
    /\ UNCHANGED besideFlow

\* A queued job is skipped when a job it needs failed or was skipped.
FlowSkip(r, j) ==
    /\ job[r][j] = "queued"
    /\ \E n \in Needs(j) : job[r][n] \in {"failure", "skipped"}
    /\ job' = [job EXCEPT ![r][j] = "skipped"]
    /\ UNCHANGED besideFlow

\* Before any pull request.
FlowInit == job = [r \in Runs |-> [j \in Jobs |-> "idle"]]

\* The widgets and the workflow outside AppFrame's file, before anything
\* is rendered or run.
SiteInit == SearchInit /\ LangInit /\ MdxInit /\ FlowInit

\* -------------------------------------------------------------- the state

\* The state before anything is mounted, with AppFrames at the places in
\* `places`.
InitWith(places) ==
    /\ scrollY \in {0}
    /\ listeners = {}
    /\ fns = [h \in {} |-> 0]
    /\ phase = [i \in Instances |-> IF i \in places THEN "unmounted" ELSE "absent"]
    /\ init = [i \in Instances |-> <<>>]
    /\ isShow = [i \in Instances |-> FALSE]
    /\ shown = [i \in Instances |-> FALSE]
    /\ effectFn = [i \in Instances |-> 0]
    /\ seen = [i \in {} |-> 0]
    /\ calm = [i \in Instances |-> TRUE]
    /\ origin = [i \in Instances |-> 0]
    /\ initial = [i \in Instances |-> FALSE]
    /\ fired = [i \in Instances |-> FALSE]
    /\ cycled = [i \in Instances |-> FALSE]
    /\ redetached = FALSE
    /\ chrome = [i \in Instances |-> Unrendered]
    /\ prior = [i \in Instances |-> FALSE]
    /\ lastBig = [i \in Instances |-> "none"]
    /\ firstFn = [i \in Instances |-> 0]
    /\ paired = FALSE
    /\ raPhase = "unmounted"
    /\ raState = initialState
    /\ raProps = <<>>
    /\ raMemo = NoMemo
    /\ raList = <<>>
    /\ raFirst = <<>>
    /\ raReduced = FALSE
    /\ SiteInit

\* One AppFrame on the page.
Init == InitWith({"frame1"})

\* First render of an AppFrame at place i: useState initialises the flag,
\* scrollInfoEvent builds fn, the effect is scheduled with fn in its closure.
Mount(i, arg) ==
    /\ phase[i] = "unmounted"
    /\ NoPendingPassive
    /\ FnIds \ DOMAIN fns # {}
    /\ \E p \in InitialPrevious(scrollY) :
          /\ fns' = Put(fns, NewFn, [inst |-> i, live |-> TRUE, previous |-> p])
          /\ origin' = [origin EXCEPT ![i] = p]
    /\ effectFn' = [effectFn EXCEPT ![i] = NewFn]
    /\ init' = [init EXCEPT ![i] = arg]
    /\ isShow' = [isShow EXCEPT ![i] = MountState(i, arg)]
    /\ shown' = [shown EXCEPT ![i] = MountState(i, arg)]
    /\ chrome' = [chrome EXCEPT ![i] = Render(MountState(i, arg))]
    /\ initial' = [initial EXCEPT ![i] = MountState(i, arg)]
    /\ lastBig' = [lastBig EXCEPT ![i] = "none"]
    /\ firstFn' = [firstFn EXCEPT ![i] = NewFn]
    /\ phase' = [phase EXCEPT ![i] = "rendered"]
    /\ seen' = Drop(seen, {i})
    /\ calm' = [calm EXCEPT ![i] = TRUE]
    /\ fired' = [fired EXCEPT ![i] = FALSE]
    /\ UNCHANGED <<scrollY, listeners, cycled, redetached, prior, paired, raVars, siteVars>>

\* The passive effect of the first render: addEventListener('scroll', fn).
RunEffect(i) ==
    /\ phase[i] = "rendered"
    /\ listeners' = AddEventListener(listeners, effectFn[i])
    /\ phase' = [phase EXCEPT ![i] = "active"]
    /\ paired' = \E j \in Instances \ {i} :
                     /\ phase[j] = "active" /\ j \notin DOMAIN seen
                     /\ origin[j] = origin[i] /\ initial[j] = initial[i]
                     /\ fns[effectFn[i]].previous = origin[i]
    /\ prior' = [prior EXCEPT ![i] = FALSE]
    /\ UNCHANGED <<scrollY, fns, init, isShow, shown, effectFn, hist, chrome,
                   lastBig, firstFn, raVars, siteVars>>

\* A later render: returns the current flag and builds a new fn, which the
\* effect, having run once, never sees.
Rerender(i) ==
    /\ phase[i] = "active"
    /\ NoPendingPassive
    /\ shown' = [shown EXCEPT ![i] = HookReturn(i)]
    /\ chrome' = [chrome EXCEPT ![i] = Render(HookReturn(i))]
    /\ IF EffectRunsOnUpdate /\ FnIds \ DOMAIN fns # {}
       THEN \E p \in InitialPrevious(scrollY) :
              /\ listeners' = AddEventListener(
                     RemoveEventListener(listeners, effectFn[i]), NewFn)
              /\ fns' = Put(Drop(fns, {effectFn[i]} \ listeners'), NewFn,
                            [inst |-> i, live |-> TRUE, previous |-> p])
              /\ effectFn' = [effectFn EXCEPT ![i] = NewFn]
       ELSE UNCHANGED <<listeners, fns, effectFn>>
    /\ UNCHANGED <<scrollY, phase, init, isShow, hist, hist2, raVars, siteVars>>

\* The component is removed: its state is no longer updated, and the
\* effect's disposer is scheduled.
Unmount(i) ==
    /\ phase[i] = "active"
    /\ NoPendingPassive
    /\ phase' = [phase EXCEPT ![i] = "cleanup"]
    /\ fns' = [h \in DOMAIN fns |->
                 IF fns[h].inst = i THEN [fns[h] EXCEPT !.live = FALSE]
                 ELSE fns[h]]
    /\ paired' = FALSE
    /\ UNCHANGED <<scrollY, listeners, init, isShow, shown, effectFn, hist,
                   chrome, prior, lastBig, firstFn, raVars, siteVars>>

\* The disposer of the effect: removeEventListener('scroll', fn). What the
\* unmounted component held (arguments, render output) is gone; the flag is
\* kept as it was left.
RunCleanup(i) ==
    /\ phase[i] = "cleanup"
    /\ listeners' = RemoveEventListener(listeners, effectFn[i])
    /\ fns' = Drop(fns, DOMAIN fns \ listeners')
    /\ effectFn' = [effectFn EXCEPT ![i] = 0]
    /\ phase' = [phase EXCEPT ![i] = "unmounted"]
    /\ init' = [init EXCEPT ![i] = <<>>]
    /\ shown' = [shown EXCEPT ![i] = FALSE]
    /\ seen' = Drop(seen, {i})
    /\ calm' = [calm EXCEPT ![i] = TRUE]
    /\ origin' = [origin EXCEPT ![i] = 0]
    /\ initial' = [initial EXCEPT ![i] = FALSE]
    /\ fired' = [fired EXCEPT ![i] = FALSE]
    /\ cycled' = [cycled EXCEPT ![i] = TRUE]
    /\ chrome' = [chrome EXCEPT ![i] = Unrendered]
    /\ prior' = [prior EXCEPT ![i] = isShow[i]]
    /\ lastBig' = [lastBig EXCEPT ![i] = "none"]
    /\ firstFn' = [firstFn EXCEPT ![i] = 0]
    /\ UNCHANGED <<scrollY, isShow, redetached, paired, raVars, siteVars>>

\* The handlers of instance i that are registered on the window.
Attached(i) == {h \in listeners : fns[h].inst = i}

\* The handler of instance i that an event reaches: the one of its mounted
\* component when there is one.
Reached(i) ==
    CHOOSE h \in Attached(i) : \A g \in Attached(i) : fns[g].live => fns[h].live

\* The host scrolls to offset y and dispatches 'scroll': every registered
\* function runs to completion, one after the other.
Scroll(y) ==
    /\ scrollY' = y
    /\ fns' = [h \in DOMAIN fns |->
                 IF h \in listeners
                 THEN [fns[h] EXCEPT !.previous = NextPrevious(@, y)]
                 ELSE fns[h]]
    /\ isShow' = [i \in Instances |->
                    IF Attached(i) = {} THEN isShow[i]
                    ELSE LET f == fns[Reached(i)]
                         IN ChangeShow(f.live, isShow[i],
                                Callback(ScrollInfo(f.previous, y), isShow[i]))]
    /\ seen' = [i \in DOMAIN seen \cup {j \in Instances : Attached(j) # {}} |->
                  IF Attached(i) = {} THEN seen[i]
                  ELSE [previous |-> fns[Reached(i)].previous,
                        position |-> y]]
    /\ calm' = [i \in Instances |->
                  IF Attached(i) = {} THEN calm[i]
                  ELSE calm[i] /\
                       ScrollInfo(fns[Reached(i)].previous, y).diff <= Threshold]
    /\ fired' = [i \in Instances |->
                   fired[i] \/ (phase[i] = "unmounted" /\ Abs(y - scrollY) > Threshold)]
    /\ lastBig' = [i \in Instances |->
                     IF Attached(i) = {} \/ ~fns[Reached(i)].live THEN lastBig[i]
                     ELSE LET p == fns[Reached(i)].previous
                          IN IF Abs(y - p) <= Threshold THEN lastBig[i]
                             ELSE IF y < p THEN "up" ELSE "down"]
    /\ UNCHANGED <<listeners, phase, init, shown, effectFn, origin, initial,
                   cycled, redetached, chrome, prior, firstFn, paired, raVars, siteVars>>

\* The disposer of a controller that is not attached is invoked (again).
DetachAgain(h) ==
    /\ h \notin listeners
    /\ listeners' = RemoveEventListener(listeners, h)
    /\ redetached' = TRUE
    /\ UNCHANGED <<scrollY, fns, phase, init, isShow, shown, effectFn,
                   seen, calm, origin, initial, fired, cycled, chrome, hist2,
                   raVars, siteVars>>

Next ==
    \/ \E i \in Instances, arg \in InitArgs : Mount(i, arg)
    \/ \E i \in Instances : RunEffect(i)
    \/ \E i \in Instances : Rerender(i)
    \/ \E i \in Instances : Unmount(i)
    \/ \E i \in Instances : RunCleanup(i)
    \/ \E y \in Offsets : Scroll(y)
    \/ \E h \in FnIds : DetachAgain(h)

Spec == Init /\ [][Next]_vars

\* AppFrame alone: the hook is always called with true, and React renders
\* again after a state update.
NextAppFrame ==
    \/ \E i \in Instances : Mount(i, AppFrameArg)
    \/ \E i \in Instances : RunEffect(i)
    \/ \E i \in Instances : Rerender(i)
    \/ \E i \in Instances : Unmount(i)
    \/ \E i \in Instances : RunCleanup(i)
    \/ \E y \in Offsets : Scroll(y)

SpecAppFrame ==
    Init /\ [][NextAppFrame]_vars /\ \A i \in Instances : WF_vars(Rerender(i))

\* Two AppFrames on the page, scrolled over the offsets one past every
\* other multiple of Grid; frame1 comes and goes, frame2 stays once mounted.
InitTwo == InitWith(Instances)

OffsetsTwo == {o \in Offsets : o % (2 * Grid) = 1}

NextTwo ==
    \/ \E i \in Instances : Mount(i, AppFrameArg)
    \/ \E i \in Instances : RunEffect(i)
    \/ \E i \in Instances : Rerender(i)
    \/ Unmount("frame1")
    \/ RunCleanup("frame1")
    \/ \E y \in OffsetsTwo : Scroll(y)

SpecTwo == InitTwo /\ [][NextTwo]_vars

\* RelatedArticle alone.
NextRelated ==
    \/ \E articles \in ArticleLists : RaMount(articles)
    \/ \E articles \in ArticleLists : RaRerender(articles)
    \/ \E action \in RaActions : RaDispatch(action)
    \/ RaUnmount

SpecRelated == Init /\ [][NextRelated]_vars

\* The search trigger among the other users of useSearchShow.
NextSearch ==
    \/ SearchRender
    \/ SearchClick
    \/ \E value \in BOOLEAN : SearchOther(value)
    \/ SearchUnmount

SpecSearch == Init /\ [][NextSearch]_vars

\* The language-switcher trigger and the dialog it opens.
NextLang ==
    \/ LangMount
    \/ LangEffect
    \/ LangRerender
    \/ LangClick
    \/ LangShortcut
    \/ LangOff
    \/ LangUnmount

SpecLang == Init /\ [][NextLang]_vars

\* Documents rendered through CustomMdxProvider.
NextMdx == \E doc \in MdxDocs : MdxRender(doc)

SpecMdx == Init /\ [][NextMdx]_vars

\* The runs of the preview workflow.
NextFlow ==
    \E r \in Runs :
        \/ FlowTrigger(r)
        \/ \E j \in Jobs :
              \/ FlowStart(r, j)
              \/ \E passed \in BOOLEAN : FlowFinish(r, j, passed)
              \/ FlowSkip(r, j)

SpecFlow == Init /\ [][NextFlow]_vars

TypeOK ==
    /\ scrollY \in Offsets
    /\ listeners \subseteq DOMAIN fns
    /\ DOMAIN fns \subseteq FnIds
    /\ \A i \in Instances : phase[i] \in {"absent", "unmounted", "rendered", "active", "cleanup"}

\* ------------------------------------------------------------- the claims

\* The signed movement of the last event instance i's handler processed:
\* positive away from the top.
Moved(i) == seen[i].position - seen[i].previous

\* Instance i's handler processes an event in this step.
Processed(i) == i \in DOMAIN seen' /\ (i \notin DOMAIN seen \/ seen'[i] # seen[i])

\* C1. As long as every event an attached controller has processed since its
\* mount had a magnitude of at most 14, its flag equals the value it had at
\* mount, however far the offsets have drifted.
C1_ThresholdInvariant ==
    \A i \in Instances :
        phase[i] = "active" /\ calm[i] => isShow[i] = initial[i]

\* Only sub-threshold events were processed, and the offset is more than 14
\* away from where the handler started.
C1_Witness ==
    \E i \in Instances :
        /\ phase[i] = "active" /\ calm[i] /\ i \in DOMAIN seen
        /\ Abs(seen[i].position - origin[i]) > Threshold
        /\ Moved(i) # 0

\* C2. After an attached controller has processed an event whose offset is
\* lower than the previous one by more than 14, the flag is true.
C2_UpwardShows ==
    \A i \in Instances :
        phase[i] = "active" /\ i \in DOMAIN seen /\ -Moved(i) > Threshold
            => isShow[i] = TRUE

\* An upward event over the threshold turned a flag that was rendered false.
C2_Witness ==
    \E i \in Instances :
        /\ phase[i] = "active" /\ i \in DOMAIN seen /\ -Moved(i) > Threshold
        /\ ~shown[i] /\ isShow[i] /\ ~calm[i]

\* C3. After an attached controller has processed an event whose offset is
\* higher than the previous one by more than 14, the flag is false.
C3_DownwardHides ==
    \A i \in Instances :
        phase[i] = "active" /\ i \in DOMAIN seen /\ Moved(i) > Threshold
            => isShow[i] = FALSE

\* A downward event over the threshold turned a flag that was rendered true.
C3_Witness ==
    \E i \in Instances :
        /\ phase[i] = "active" /\ i \in DOMAIN seen /\ Moved(i) > Threshold
        /\ shown[i] /\ ~isShow[i]

\* C4. The comparison with the threshold is strict: an event of magnitude
\* exactly 14 leaves the flag as it was, in either direction, and an event of
\* magnitude 15 sets it by its direction.
C4_StrictBoundary ==
    [][\A i \in Instances :
          phase[i] = "active" /\ Processed(i) =>
              LET d == seen'[i].position - seen'[i].previous
              IN /\ Abs(d) = Threshold => isShow'[i] = isShow[i]
                 /\ d = Threshold + 1 => isShow'[i] = FALSE
                 /\ d = -(Threshold + 1) => isShow'[i] = TRUE]_vars

\* After an earlier event over the threshold, an event exactly 14 away from
\* the top was processed and the flag is still true.
C4_Witness ==
    \E i \in Instances :
        /\ phase[i] = "active" /\ i \in DOMAIN seen
        /\ Moved(i) = Threshold /\ isShow[i]
        /\ ~calm[i]

\* C5. After an attached controller has processed an event, ignored or not,
\* the previous position its handler stores is that event's offset.
C5_PreviousAlwaysUpdates ==
    \A i \in Instances :
        phase[i] = "active" /\ i \in DOMAIN seen
            => /\ Attached(i) = {effectFn[i]}
               /\ fns[effectFn[i]].previous = seen[i].position

\* Two ignored events in a row, 0 -> 14 -> 28: the second is measured
\* against 14, not against the 0 the handler started from, so the chrome is
\* still shown.
C5_Witness ==
    \E i \in Instances :
        /\ phase[i] = "active" /\ calm[i] /\ i \in DOMAIN seen
        /\ origin[i] = 0 /\ seen[i].previous = Threshold
        /\ seen[i].position = 2 * Threshold
        /\ fns[effectFn[i]].previous = 2 * Threshold
        /\ initial[i] /\ isShow[i]

\* C6. Once the observer of a controller has been detached, its flag does
\* not change and its handler processes no event, whatever the host fires.
C6_NoUpdateAfterDetach ==
    [][\A i \in Instances :
          phase[i] = "unmounted" /\ phase'[i] = "unmounted"
              => isShow'[i] = isShow[i] /\ i \notin DOMAIN seen']_vars

\* A controller that showed its chrome was detached, and the host has since
\* fired an event of magnitude over 14.
C6_Witness ==
    \E i \in Instances :
        phase[i] = "unmounted" /\ cycled[i] /\ fired[i] /\ isShow[i]

\* C7. Invoking the disposer of a controller that is not attached changes
\* neither the set of attached observers, nor a flag, nor a stored previous
\* position.
C7_DetachIdempotent ==
    [][redetached' # redetached
          => listeners' = listeners /\ isShow' = isShow /\ fns' = fns]_vars

\* A disposer was invoked again while another observer is attached.
C7_Witness ==
    redetached /\ \E i \in Instances : phase[i] = "active" /\ cycled[i]
                                        /\ Attached(i) # {}

\* C8 as stated: exactly one observer while the component is mounted, none
\* while it is not.
C8_Original ==
    \A i \in Instances :
        /\ phase[i] \in {"rendered", "active"} => Cardinality(Attached(i)) = 1
        /\ phase[i] \in {"absent", "unmounted", "cleanup"} => Attached(i) = {}

\* C8, amended. An instance has exactly one observer from the run of its
\* mount effect to the run of the effect's disposer, and none outside of
\* that; the window never holds another observer.
C8_ObserverLifecycle ==
    /\ \A i \in Instances :
        /\ phase[i] \in {"active", "cleanup"} => Attached(i) = {effectFn[i]}
        /\ phase[i] \in {"absent", "unmounted", "rendered"} => Attached(i) = {}
    /\ listeners = DOMAIN fns \ {effectFn[i] : i \in {j \in Instances : phase[j] = "rendered"}}

\* A second activation, after re-renders: still one observer.
C8_Witness ==
    \E i \in Instances :
        /\ phase[i] = "active" /\ cycled[i] /\ Cardinality(listeners) = 1
        /\ shown[i] # initial[i]

\* C9. Until an event over the threshold is processed, the flag of a mounted
\* component is the boolean its caller supplied, and false when the caller
\* supplied none.
C9_InitialValue ==
    \A i \in Instances :
        phase[i] \in {"rendered", "active"} /\ calm[i]
            => /\ init[i] = <<>> => isShow[i] = FALSE
               /\ init[i] # <<>> => isShow[i] = init[i][1]

\* Mounted without an argument, one ignored event processed.
C9_Witness ==
    \E i \in Instances :
        /\ phase[i] = "active" /\ calm[i] /\ init[i] = <<>>
        /\ i \in DOMAIN seen /\ Moved(i) # 0 /\ ~isShow[i]

\* C10. The flag of an existing instance changes only in a step in which its
\* handler processes an event of magnitude over 14.
C10_FlagChangesOnlyByRule ==
    [][\A i \in Instances :
          isShow'[i] # isShow[i] /\ ~(phase[i] = "unmounted" /\ phase'[i] = "rendered")
              => /\ Processed(i)
                 /\ Abs(seen'[i].position - seen'[i].previous) > Threshold
                 /\ phase[i] = "active"]_vars

\* The flag differs from its value at mount after an event over the
\* threshold.
C10_Witness ==
    \E i \in Instances :
        /\ phase[i] = "active" /\ i \in DOMAIN seen
        /\ isShow[i] # initial[i] /\ Abs(Moved(i)) > Threshold

\* The boolean a caller's argument stands for.
Supplied(arg) == IF arg = <<>> THEN FALSE ELSE arg[1]

\* C11. A component mounted again starts from the value its caller supplies
\* (false when none), not from the flag its previous activation ended with.
C11_FreshOnRemount ==
    \A i \in Instances :
        phase[i] = "rendered" /\ cycled[i]
            => isShow[i] = Supplied(init[i]) /\ shown[i] = Supplied(init[i])

\* Mounted again with a value that differs from the flag left behind.
C11_Witness ==
    \E i \in Instances :
        phase[i] = "rendered" /\ cycled[i] /\ prior[i] # isShow[i]

\* C12. Processing an event leaves a well-formed state (a boolean flag, an
\* offset as previous position), and an event at the previous offset,
\* magnitude 0, leaves the flag as it was.
C12_ZeroMagnitude ==
    [][\A i \in Instances :
          phase[i] = "active" /\ i \in DOMAIN seen' =>
              /\ isShow'[i] \in BOOLEAN
              /\ fns'[effectFn[i]].previous \in Offsets
              /\ seen'[i].position = seen'[i].previous => isShow'[i] = isShow[i]]_vars

\* An event at the previous offset was processed while the chrome was shown.
C12_Witness ==
    \E i \in Instances :
        /\ phase[i] = "active" /\ i \in DOMAIN seen
        /\ Moved(i) = 0 /\ seen[i].position > 0 /\ isShow[i]

\* The conditional classes that hide the header and the bottom navigation.
HeaderHidden(i) == chrome[i].header = "-translate-y-full"
NavHidden(i) == chrome[i].nav = "translate-y-full"

\* C14. In every render of AppFrame the header is hidden exactly when the
\* bottom navigation is, both exactly when the flag of that render is false,
\* and neither on first paint.
C14_OneFlagDrivesBoth ==
    \A i \in Instances :
        phase[i] \in {"rendered", "active"} =>
            /\ HeaderHidden(i) <=> NavHidden(i)
            /\ HeaderHidden(i) <=> ~shown[i]
            /\ ~HeaderHidden(i) => chrome[i].header = "" /\ chrome[i].nav = ""
            /\ phase[i] = "rendered" => ~HeaderHidden(i) /\ ~NavHidden(i)

\* A render with both hidden.
C14_Witness ==
    \E i \in Instances :
        phase[i] = "active" /\ HeaderHidden(i) /\ NavHidden(i) /\ ~isShow[i]

\* C15. While the component stays mounted, the value an event over the
\* threshold gave the flag is eventually the one rendered, unless a later
\* event changes the flag before.
C15_EventuallyRendered ==
    \A i \in Instances : \A b \in BOOLEAN :
        (phase[i] = "active" /\ lastBig[i] # "none" /\ isShow[i] = b)
            ~> \/ phase[i] # "active"
               \/ isShow[i] # b
               \/ /\ shown[i] = b
                  /\ HeaderHidden(i) = ~b
                  /\ NavHidden(i) = ~b

\* Shown again after having been hidden: the upward event has been rendered.
C15_Witness ==
    \E i \in Instances :
        /\ phase[i] = "active" /\ lastBig[i] = "up" /\ isShow[i] /\ shown[i]
        /\ ~HeaderHidden(i) /\ ~NavHidden(i)
        /\ -Moved(i) > Threshold

C17_FlagFromHistory ==
    \A i \in Instances :
        phase[i] = "active" =>
            isShow[i] = CASE lastBig[i] = "up" -> TRUE
                          [] lastBig[i] = "down" -> FALSE
                          [] OTHER -> initial[i]

\* The last event was ignored; the flag is the one of the earlier upward event.
C17_Witness ==
    \E i \in Instances :
        /\ phase[i] = "active" /\ lastBig[i] = "up" /\ ~initial[i] /\ isShow[i]
        /\ Moved(i) > 0 /\ Moved(i) <= Threshold

\* C18. The only handler ever attached is the one the first render built,
\* and it is the one the disposer removes; a later render leaves the
\* listeners and the handler's stored position as they were.
C18_RerenderStable ==
    [][\A i \in Instances :
          /\ phase'[i] = "active"
                => Attached(i)' = {firstFn'[i]} /\ effectFn'[i] = firstFn'[i]
          /\ phase[i] = "active" /\ phase'[i] = "active" /\ chrome'[i] # chrome[i]
                => listeners' = listeners /\ fns' = fns
          /\ phase[i] = "cleanup" /\ phase'[i] = "unmounted"
                => firstFn[i] \in listeners /\ listeners' = listeners \ {firstFn[i]}]_vars

\* After the render that followed a flip: the first handler is the one
\* attached, and it still holds the last event's offset.
C18_Witness ==
    \E i \in Instances :
        /\ phase[i] = "active" /\ shown[i] # initial[i] /\ i \in DOMAIN seen
        /\ listeners = {firstFn[i]}
        /\ fns[firstFn[i]].previous = seen[i].position
        /\ seen[i].position # origin[i]

\* C19. The reducer returns {type: 'RECENT'} whatever it is given, and the
\* state of a mounted RelatedArticle has type 'RECENT'.
C19_AlwaysRecent ==
    /\ raState = [type |-> "RECENT"]
    /\ \A action \in RaActions : reducer(raState, action) = [type |-> "RECENT"]

\* The reducer has been applied.
C19_Witness == raPhase = "mounted" /\ raReduced /\ raState.type = "RECENT"

\* C20. The list holds one item per article of the memoised data, in its
\* order, and the memoised data are the articles of the first render,
\* whatever articles later renders were given.
C20_ListOfFirstRender ==
    raPhase = "mounted" =>
        /\ raMemo.value = raFirst
        /\ Len(raList) = Len(raFirst)
        /\ \A k \in 1..Len(raList) :
              raList[k].key = raFirst[k].to /\ raList[k].headline = raFirst[k]

\* Rendered again with other articles: the list is still the first one.
C20_Witness ==
    /\ raPhase = "mounted" /\ raProps # raFirst
    /\ Len(raFirst) >= 2 /\ raFirst[1] # raFirst[2]
    /\ Len(raList) = Len(raFirst) /\ raList[1].headline = raFirst[1]

\* C21. Every click on the search button hands true to changeShow and
\* leaves the search-visible state true, also when it was true already; a
\* step in which nobody calls changeShow (a render of the trigger, its
\* unmount) leaves the state as it was.
C21_ClickShowsSearch ==
    [][/\ searchLog' # searchLog /\ searchLog'[Len(searchLog')].by = "trigger"
            => searchLog'[Len(searchLog')].value = TRUE /\ searchShow' = TRUE
       /\ searchLog' = searchLog => searchShow' = searchShow]_vars

\* The trigger was clicked with the state false and with the state true,
\* and its last render read the state the clicks left.
C21_Witness ==
    /\ \E k \in 1..Len(searchLog) :
          searchLog[k].by = "trigger" /\ ~searchLog[k].before
    /\ \E k \in 1..Len(searchLog) :
          searchLog[k].by = "trigger" /\ searchLog[k].before
    /\ searchMounted /\ searchShow /\ searchSeen

\* The entries of the trace made in interaction n.
LangOf(n) == {k \in 1..Len(langTrace) : langTrace[k].n = n}

\* C22. A click and the cmd+i shortcut both invoke the dialog's 'on'
\* action; a key press calls 'on' first and then logs exactly one event, a
\* click logs none; and the handler is bound once, by the mount effect, and
\* not again by a later render.
C22_SwitcherTrigger ==
    /\ \A k \in 1..Len(langTrace) :
          LET e == langTrace[k]
          IN  /\ e.by = "click" => e.call = "on" /\ LangOf(e.n) = {k}
              /\ e.by = "shortcut" =>
                    /\ Cardinality(LangOf(e.n)) = 2
                    /\ e.call = "on" =>
                          k < Len(langTrace) /\ langTrace[k + 1].call = "log"
                                             /\ langTrace[k + 1].n = e.n
                    /\ e.call = "log" =>
                          k > 1 /\ langTrace[k - 1].call = "on"
                                /\ langTrace[k - 1].n = e.n
    /\ langBinds = IF langPhase = "bound" THEN 1 ELSE 0

\* After a click and a key press, the second with the dialog closed again,
\* and a later render: the dialog is open and one event has been logged.
C22_Witness ==
    /\ langPhase = "bound" /\ langOpen /\ langSeen
    /\ Len(langTrace) = 3
    /\ langTrace[1] = [by |-> "click", call |-> "on", n |-> 1]
    /\ langTrace[2] = [by |-> "shortcut", call |-> "on", n |-> 2]
    /\ langTrace[3] = [by |-> "shortcut", call |-> "log", n |-> 2]

\* The wrapper's output holds, in order, one item per element of the
\* document: a div with the props but mdxType and originalType for an
\* element of class 'footnotes', the element itself otherwise.
MappedOneToOne ==
    /\ ~mdxOut.threw
    /\ Len(mdxOut.items) = Len(mdxDoc)
    /\ \A k \in 1..Len(mdxDoc) :
          LET child == mdxDoc[k]
              out == mdxOut.items[k]
          IN  IF "className" \in DOMAIN child.props
                 /\ child.props.className = "footnotes"
              THEN /\ out.type = "div"
                   /\ DOMAIN out.props
                         = DOMAIN child.props \ {"mdxType", "originalType"}
                   /\ \A p \in DOMAIN out.props : out.props[p] = child.props[p]
              ELSE out = child

\* C23, as stated. The wrapper maps the children of every document one to
\* one, preserving their number and order.
C23_WrapperMapsChildren == mdxRendered => MappedOneToOne

\* C23, for the documents it holds for. A document of two or more top-level
\* elements is mapped one to one, preserving number and order.
C23_ArrayMapped == mdxRendered /\ Len(mdxDoc) >= 2 => MappedOneToOne

\* A document with a footnotes block last, after a div of another class.
C23_Witness ==
    /\ mdxRendered /\ Len(mdxDoc) = 3 /\ ~mdxOut.threw
    /\ mdxDoc[1].props.mdxType = "div" /\ mdxOut.items[1] = mdxDoc[1]
    /\ DOMAIN mdxDoc[3].props = {"mdxType", "originalType", "className", "id"}
    /\ mdxDoc[3].props.className = "footnotes"
    /\ mdxOut.items[3].props = [className |-> "footnotes", id |-> "fn"]

\* A job that has started.
Ran == {"running", "success", "failure"}

\* C24. In every run build and unit-test start only when setup has
\* succeeded, deploy only when unit-test and build both have, performance
\* only when deploy has; and when unit-test or build has failed, deploy and
\* performance have not started.
C24_WorkflowOrder ==
    [][\A r \in Runs :
          /\ \A j \in Jobs :
                job'[r][j] = "running" /\ job[r][j] # "running" =>
                    /\ j \in {"build", "unit-test"} => job[r]["setup"] = "success"
                    /\ j = "deploy" => /\ job[r]["unit-test"] = "success"
                                       /\ job[r]["build"] = "success"
                    /\ j = "performance" => job[r]["deploy"] = "success"
          /\ job'[r]["unit-test"] = "failure" \/ job'[r]["build"] = "failure" =>
                /\ job'[r]["deploy"] \notin Ran
                /\ job'[r]["performance"] \notin Ran]_vars

\* One run went through to performance; in another unit-test failed after
\* build had succeeded, and deploy and performance were skipped.
C24_Witness ==
    \E r \in Runs : \E q \in Runs :
        /\ \A j \in Jobs : job[r][j] = "success"
        /\ job[q]["build"] = "success" /\ job[q]["unit-test"] = "failure"
        /\ job[q]["deploy"] = "skipped" /\ job[q]["performance"] = "skipped"
====
